---- MODULE Spec2Model ----
(***************************************************************************)
(* State-machine model of UFlowNode_PlayLevelSequence                      *)
(* (Source/Flow/Private/Nodes/World/FlowNode_PlayLevelSequence.cpp).       *)
(*                                                                         *)
(* Several node instances share level-sequence assets.  Every handler of   *)
(* the node is translated into the sequence of primitive steps its body    *)
(* performs, in program order; the next state is obtained by applying      *)
(* those steps one after another (Run), and the step sequence itself is    *)
(* kept in the variable steps as the trace of the last handler.            *)
(***************************************************************************)
EXTENDS Integers, Sequences, FiniteSets, TLC

\* ------------------------------------------------------------- bounds
\* Players that may be created in one behaviour.
MaxPlayers == 2
\* Entry points (keys) authored in one flow section, editor-side enumeration.
MaxEntries == 2

\* ------------------------------------------------------------ domains
\* Node instances of class UFlowNode_PlayLevelSequence.
Nodes == {"n1", "n2"}
NodeOrder == <<"n1", "n2">>
\* A UObject that is not a UFlowNode_PlayLevelSequence (Cast<> fails on it).
NonNode == "worldObject"
Receivers == Nodes \cup {NonNode}

\* Level sequence assets, and the null soft reference / null pointer.
Assets == {"A1", "A2"}
NullAsset == "nullAsset"
AssetRefs == Assets \cup {NullAsset}
NullPlayer == 0

\* Time dilation values delivered to OnTimeDilationUpdate (1: normal speed).
TimeDilations == {1, 2}

\* The search panel: the length of a query, the characters it is typed
\* from, the graphs the editor can have focused.
MaxQuery == 3
QueryChars == {"a", "B", " "}
Graphs == {"G1"}
NullGraph == "nullGraph"
NullNode == "nullNode"
NullFlowAsset == "nullFlowAsset"
NullResult == "nullResult"
CheckBoxStates == {"Unchecked", "Checked", "Undetermined"}

\* GetMovieScene()->GetMasterTracks() of each asset: tracks in order, each
\* with its class (flow track or not) and GetAllSections().
MasterTracks(a) ==
  IF a = "A1"
    THEN << [isFlowTrack |-> TRUE,  sections |-> <<"s1", "s2", "x1">>],
            [isFlowTrack |-> FALSE, sections |-> <<"x2">>] >>
    ELSE << [isFlowTrack |-> TRUE,  sections |-> <<"s3">>] >>

\* Sections for which Cast<UMovieSceneFlowSectionBase> succeeds.
FlowSections == {"s1", "s2", "s3"}
IsFlowSection(s) == s \in FlowSections

\* Authored event names (FString) and their FName: FName comparison ignores
\* case and the empty string is NAME_None.
EventNames == {"", "Hit", "hit", "Boom"}
EditorNames == {"", "Hit", "hit"}
ToFName(str) ==
  CASE str = ""     -> "None"
    [] str = "Hit"  -> "hit"
    [] str = "hit"  -> "hit"
    [] str = "Boom" -> "boom"
    [] OTHER        -> str
IsEmpty(str) == str = ""

\* The authoring the runtime specification plays.
RuntimeEntryPoints ==
  [s \in FlowSections |->
     CASE s = "s1" -> <<"Hit", "">>
       [] s = "s2" -> <<"Hit">>
       [] OTHER    -> <<"Boom">>]

\* The node configurations the runtime specification starts from: the first
\* node references an asset, the second the same asset, another one or none.
RuntimeSequences == {f \in [Nodes -> AssetRefs] : f["n1"] = "A1"}

VARIABLES
  Sequence,        \* [Nodes -> AssetRefs]: the node's soft asset reference
  LoadedSequence,  \* [Nodes -> AssetRefs]
  SequencePlayer,  \* [Nodes -> 0..MaxPlayers], NullPlayer when nullptr
  players,         \* the ULevelSequencePlayer objects created so far
  bound,           \* [FlowSections -> BOOLEAN]: OnEventExecuted is bound
  entryPoints,     \* [FlowSections -> Seq(EventNames)]: GetAllEntryPoints()
  fault,           \* a handler dereferenced a null pointer
  lastOp,          \* the handler that ran last, its inputs and pre-state
  steps,           \* the steps the last handler performed, in order
  pins,            \* the list the last GetContextOutputs returned
  cleanedUp,       \* [Nodes -> BOOLEAN]: Cleanup ran and no activation since
  SearchValue,     \* SFindInFlow: the text of the search box
  bFindInSubGraph, \* SFindInFlow: the Find-In-SubGraph option
  ItemsFound,      \* SFindInFlow: the results the tree view shows
  HighlightText,   \* SFindInFlow: the text highlighted in the rows
  RootSearchResult,\* SFindInFlow: the root of the last MatchTokens
  FocusedGraph     \* the graph the editor had focused at the last search

vars == <<Sequence, LoadedSequence, SequencePlayer, players, bound,
          entryPoints, fault, lastOp, steps, pins, cleanedUp,
          SearchValue, bFindInSubGraph, ItemsFound, HighlightText,
          RootSearchResult, FocusedGraph>>

\* The state of the search panel.
findVars == <<SearchValue, bFindInSubGraph, ItemsFound, HighlightText,
              RootSearchResult, FocusedGraph>>

\* The state of the nodes and of the pin enumeration.
nodeVars == <<Sequence, LoadedSequence, SequencePlayer, players, bound,
              entryPoints, fault, steps, pins, cleanedUp>>

\* ------------------------------------------------------ primitive steps
Step(k, n, p, x, fin) ==
  [k |-> k, n |-> n, p |-> p, x |-> x, fin |-> fin, rate |-> 0]

\* TriggerOutput(PinName, bFinish) on node n.
TriggerOutput(n, name, fin) == Step("TriggerOutput", n, NullPlayer, name, fin)
\* TriggerFirstOutput(bFinish) on node n.
TriggerFirstOutput(n, fin) == Step("TriggerFirstOutput", n, NullPlayer, "", fin)

NewPlayer(n, a) ==
  [owner |-> n, asset |-> a, playing |-> FALSE, onFinished |-> {},
   finished |-> FALSE, completed |-> 0, playRate |-> 1]

\* The program state the steps act on.
Core == [LoadedSequence |-> LoadedSequence, SequencePlayer |-> SequencePlayer,
         players |-> players, bound |-> bound, fault |-> fault]

Faulted(st) == [st EXCEPT !.fault = TRUE]

\* The effect of one step on the program state.  A step through a null
\* player pointer is a fault.
ApplyStep(st, s) ==
  CASE s.k = "LoadAsset" ->
         [st EXCEPT !.LoadedSequence[s.n] = s.x]
    [] s.k = "CreateLevelSequencePlayer" ->
         IF s.p = NullPlayer
           THEN [st EXCEPT !.SequencePlayer[s.n] = NullPlayer]
           ELSE [st EXCEPT !.players = Append(@, NewPlayer(s.n, s.x)),
                           !.SequencePlayer[s.n] = s.p]
    [] s.k = "BindStatic" -> [st EXCEPT !.bound[s.x] = TRUE]
    [] s.k = "Unbind"     -> [st EXCEPT !.bound[s.x] = FALSE]
    [] s.k = "AddDynamic" ->
         IF s.p = NullPlayer THEN Faulted(st)
         ELSE [st EXCEPT !.players[s.p].onFinished = @ \cup {s.n}]
    [] s.k = "Play" ->
         IF s.p = NullPlayer THEN Faulted(st)
         ELSE [st EXCEPT !.players[s.p].playing = TRUE]
    [] s.k = "RemoveAll" ->
         IF s.p = NullPlayer THEN Faulted(st)
         ELSE [st EXCEPT !.players[s.p].onFinished = @ \ {s.n}]
    [] s.k = "Stop" ->
         IF s.p = NullPlayer THEN Faulted(st)
         ELSE [st EXCEPT !.players[s.p].playing = FALSE]
    [] s.k = "ClearLoaded" -> [st EXCEPT !.LoadedSequence[s.n] = NullAsset]
    [] s.k = "ClearPlayer" -> [st EXCEPT !.SequencePlayer[s.n] = NullPlayer]
    [] s.k = "SetPlayRate" ->
         IF s.p = NullPlayer THEN Faulted(st)
         ELSE [st EXCEPT !.players[s.p].playRate = s.rate]
    [] s.k = "Finished" ->
         [st EXCEPT !.players[s.p].playing = FALSE,
                    !.players[s.p].finished = TRUE]
    [] OTHER -> st

RECURSIVE Run(_, _)
Run(st, ss) == IF ss = <<>> THEN st ELSE Run(ApplyStep(st, Head(ss)), Tail(ss))

\* The handler's steps become the next state.
Perform(ss) ==
  \E st \in {Run(Core, ss)} :
  /\ LoadedSequence' = st.LoadedSequence
  /\ SequencePlayer' = st.SequencePlayer
  /\ players' = st.players
  /\ bound' = st.bound
  /\ fault' = st.fault
  /\ steps' = ss

\* ------------------------------------------------------------ helpers
\* LoadAsset<ULevelSequence>(Sequence): the asset, or null when the
\* reference is null or does not resolve.
LoadAsset(ref, resolves) == IF ref # NullAsset /\ resolves THEN ref ELSE NullAsset

RECURSIVE FlowSectionsIn(_)
FlowSectionsIn(secs) ==
  IF secs = <<>> THEN <<>>
  ELSE (IF IsFlowSection(Head(secs)) THEN <<Head(secs)>> ELSE <<>>)
       \o FlowSectionsIn(Tail(secs))

\* The nested loops over master tracks and sections: the flow sections of
\* the flow tracks, in visiting order.
RECURSIVE ScanTracks(_)
ScanTracks(tracks) ==
  IF tracks = <<>> THEN <<>>
  ELSE (IF Head(tracks).isFlowTrack THEN FlowSectionsIn(Head(tracks).sections)
        ELSE <<>>)
       \o ScanTracks(Tail(tracks))

ScanFlowSections(a) == ScanTracks(MasterTracks(a))

Range(f) == {f[i] : i \in DOMAIN f}

\* The record of a handler call: the handler, the node (or receiver) it ran
\* on and its inputs.  Cleanup also records the node's references before it.
Op(op, node, name, world, asset) ==
  [op |-> op, node |-> node, name |-> name, world |-> world, asset |-> asset,
   prePlayer |-> IF op = "Cleanup" THEN SequencePlayer[node] ELSE NullPlayer,
   preLoaded |-> IF op = "Cleanup" THEN LoadedSequence[node] ELSE NullAsset,
   again |-> FALSE]

\* SFindInFlow on construction: nothing typed, nothing found.  The option is
\* a member without an initialiser in the source file.
FindInit ==
  /\ SearchValue = <<>>
  /\ bFindInSubGraph \in BOOLEAN
  /\ ItemsFound = <<>>
  /\ HighlightText = <<>>
  /\ RootSearchResult = NullResult
  /\ FocusedGraph = NullGraph

\* ------------------------------------------------------------- handlers
Init ==
  /\ Sequence \in RuntimeSequences
  /\ LoadedSequence = [n \in Nodes |-> NullAsset]
  /\ SequencePlayer = [n \in Nodes |-> NullPlayer]
  /\ players = <<>>
  /\ bound = [s \in FlowSections |-> FALSE]
  /\ entryPoints = RuntimeEntryPoints
  /\ fault = FALSE
  /\ lastOp = [op |-> "Init", node |-> NonNode, name |-> "", world |-> FALSE,
               asset |-> NullAsset, prePlayer |-> NullPlayer,
               preLoaded |-> NullAsset, again |-> FALSE]
  /\ steps = <<>>
  /\ pins = <<>>
  /\ cleanedUp = [n \in Nodes |-> FALSE]
  /\ FindInit
  /\ ~bFindInSubGraph

\* ExecuteInput with the first-output trigger moved inside the success
\* branch: a failed activation stalls the graph.
ExecuteInputStepsStall(n, world, resolves) ==
  LET a == LoadAsset(Sequence[n], resolves)
      p == Len(players) + 1
  IN  <<Step("LoadAsset", n, NullPlayer, a, FALSE)>>
      \o (IF world /\ a # NullAsset
            THEN << Step("CreateLevelSequencePlayer", n, p, a, FALSE),
                    TriggerOutput(n, "PreStart", FALSE),
                    Step("AddDynamic", n, p, "", FALSE),
                    Step("Play", n, p, "", FALSE),
                    TriggerOutput(n, "Started", FALSE),
                    TriggerFirstOutput(n, FALSE) >>
            ELSE <<>>)

\* ExecuteInput with playback begun before PreStart is triggered.
ExecuteInputStepsPlayFirst(n, world, resolves) ==
  LET a == LoadAsset(Sequence[n], resolves)
      p == Len(players) + 1
  IN  <<Step("LoadAsset", n, NullPlayer, a, FALSE)>>
      \o (IF world /\ a # NullAsset
            THEN << Step("CreateLevelSequencePlayer", n, p, a, FALSE),
                    Step("AddDynamic", n, p, "", FALSE),
                    Step("Play", n, p, "", FALSE),
                    TriggerOutput(n, "PreStart", FALSE),
                    TriggerOutput(n, "Started", FALSE) >>
            ELSE <<>>)
      \o <<TriggerFirstOutput(n, FALSE)>>

\* ExecuteInput that never registers the completion callback.
ExecuteInputStepsNoCallback(n, world, resolves) ==
  LET a == LoadAsset(Sequence[n], resolves)
      p == Len(players) + 1
  IN  <<Step("LoadAsset", n, NullPlayer, a, FALSE)>>
      \o (IF world /\ a # NullAsset
            THEN << Step("CreateLevelSequencePlayer", n, p, a, FALSE),
                    TriggerOutput(n, "PreStart", FALSE),
                    Step("Play", n, p, "", FALSE),
                    TriggerOutput(n, "Started", FALSE) >>
            ELSE <<>>)
      \o <<TriggerFirstOutput(n, FALSE)>>

\* UFlowNode_PlayLevelSequence::ExecuteInput, as the steps of its body.
ExecuteInputSteps(n, world, resolves) ==
  LET a == LoadAsset(Sequence[n], resolves)
      p == Len(players) + 1
  IN  <<Step("LoadAsset", n, NullPlayer, a, FALSE)>>
      \o (IF world /\ a # NullAsset
            THEN << Step("CreateLevelSequencePlayer", n, p, a, FALSE),
                    TriggerOutput(n, "PreStart", FALSE),
                    Step("AddDynamic", n, p, "", FALSE),
                    Step("Play", n, p, "", FALSE),
                    TriggerOutput(n, "Started", FALSE) >>
            ELSE <<>>)
      \o <<TriggerFirstOutput(n, FALSE)>>

ExecuteInput(n, world, resolves) ==
  /\ (world /\ LoadAsset(Sequence[n], resolves) # NullAsset)
       => Len(players) < MaxPlayers
  /\ Perform(ExecuteInputSteps(n, world, resolves))
  /\ lastOp' = Op("ExecuteInput", n, "", world,
                  LoadAsset(Sequence[n], resolves))
  /\ UNCHANGED <<Sequence, entryPoints, pins, findVars>>
  /\ cleanedUp' = [cleanedUp EXCEPT ![n] = FALSE]

\* UFlowNode_PlayLevelSequence::CreatePlayer.  CreateLevelSequencePlayer
\* returns null when the world context object has no world.
CreatePlayerSteps(n, world, resolves) ==
  LET a == LoadAsset(Sequence[n], resolves)
      p == IF world THEN Len(players) + 1 ELSE NullPlayer
      scan == ScanFlowSections(a)
  IN  <<Step("LoadAsset", n, NullPlayer, a, FALSE)>>
      \o (IF a # NullAsset
            THEN <<Step("CreateLevelSequencePlayer", n, p, a, FALSE)>>
                 \o [i \in 1..Len(scan) |->
                       Step("BindStatic", n, NullPlayer, scan[i], FALSE)]
            ELSE <<>>)

CreatePlayer(n, world, resolves) ==
  /\ (world /\ LoadAsset(Sequence[n], resolves) # NullAsset)
       => Len(players) < MaxPlayers
  /\ Perform(CreatePlayerSteps(n, world, resolves))
  /\ lastOp' = Op("CreatePlayer", n, "", world,
                  LoadAsset(Sequence[n], resolves))
  /\ UNCHANGED <<Sequence, entryPoints, pins, findVars>>
  /\ cleanedUp' = [cleanedUp EXCEPT ![n] = FALSE]

\* UFlowNode_PlayLevelSequence::TriggerEvent.
TriggerEvent(n, EventName) == <<TriggerOutput(n, ToFName(EventName), FALSE)>>

\* OnSequenceEventExecuted that ignores the receiver and dispatches to every
\* node instance.
OnSequenceEventExecutedBroadcast(EventReceiver, EventName) ==
  TriggerEvent("n1", EventName) \o TriggerEvent("n2", EventName)

\* UFlowNode_PlayLevelSequence::OnSequenceEventExecuted (static).
OnSequenceEventExecuted(EventReceiver, EventName) ==
  IF EventReceiver \in Nodes THEN TriggerEvent(EventReceiver, EventName)
  ELSE <<>>

\* The compiled evaluation of a playing player reaches entry point i of flow
\* section s of its asset and executes the section's delegate, if bound,
\* once for an event receiver of the player.
SequenceEvent(p, s, i, r) ==
  /\ p \in 1..Len(players)
  /\ players[p].playing
  /\ s \in Range(ScanFlowSections(players[p].asset))
  /\ i \in 1..Len(entryPoints[s])
  /\ r \in {players[p].owner, NonNode}
  /\ bound[s]
  /\ Perform(OnSequenceEventExecuted(r, entryPoints[s][i]))
  /\ lastOp' = Op("OnSequenceEventExecuted", r, entryPoints[s][i], FALSE,
                  players[p].asset)
  /\ UNCHANGED <<Sequence, entryPoints, pins, cleanedUp, findVars>>

\* UFlowNode_PlayLevelSequence::OnPlaybackFinished.
OnPlaybackFinished(n) == <<TriggerOutput(n, "Completed", FALSE)>>

RECURSIVE Broadcast(_, _)
Broadcast(order, registered) ==
  IF order = <<>> THEN <<>>
  ELSE (IF Head(order) \in registered THEN OnPlaybackFinished(Head(order))
        ELSE <<>>)
       \o Broadcast(Tail(order), registered)

CompletedTriggers(ss) ==
  Cardinality({i \in 1..Len(ss) :
                 ss[i].k = "TriggerOutput" /\ ss[i].x = "Completed"})

\* Playback of player p reaches its end: the player stops and broadcasts
\* OnFinished to the callbacks registered on it.
PlaybackFinished(p) ==
  /\ p \in 1..Len(players)
  /\ players[p].playing
  /\ \E ss \in {<<Step("Finished", players[p].owner, p, "", FALSE)>>
                  \o Broadcast(NodeOrder, players[p].onFinished)} :
     \E st \in {Run(Core, ss)} :
         /\ players' = [st.players EXCEPT
                          ![p].completed = @ + CompletedTriggers(ss)]
         /\ LoadedSequence' = st.LoadedSequence
         /\ SequencePlayer' = st.SequencePlayer
         /\ bound' = st.bound
         /\ fault' = st.fault
         /\ steps' = ss
  /\ lastOp' = Op("OnPlaybackFinished", players[p].owner, "", FALSE, NullAsset)
  /\ UNCHANGED <<Sequence, entryPoints, pins, cleanedUp, findVars>>

\* Cleanup that releases the player without removing the callback or
\* stopping it.
CleanupStepsNoStop(n) ==
  LET a == LoadedSequence[n]
      p == SequencePlayer[n]
      scan == ScanFlowSections(a)
  IN  (IF a # NullAsset
         THEN [i \in 1..Len(scan) |->
                 Step("Unbind", n, NullPlayer, scan[i], FALSE)]
              \o <<Step("ClearLoaded", n, NullPlayer, "", FALSE)>>
         ELSE <<>>)
      \o (IF p # NullPlayer
            THEN <<Step("ClearPlayer", n, NullPlayer, "", FALSE)>>
            ELSE <<>>)

\* Cleanup without the null check on SequencePlayer.
CleanupStepsUnguarded(n) ==
  LET a == LoadedSequence[n]
      p == SequencePlayer[n]
      scan == ScanFlowSections(a)
  IN  (IF a # NullAsset
         THEN [i \in 1..Len(scan) |->
                 Step("Unbind", n, NullPlayer, scan[i], FALSE)]
              \o <<Step("ClearLoaded", n, NullPlayer, "", FALSE)>>
         ELSE <<>>)
      \o << Step("RemoveAll", n, p, "", FALSE),
            Step("Stop", n, p, "", FALSE),
            Step("ClearPlayer", n, NullPlayer, "", FALSE) >>

\* UFlowNode_PlayLevelSequence::Cleanup.
CleanupSteps(n) ==
  LET a == LoadedSequence[n]
      p == SequencePlayer[n]
      scan == ScanFlowSections(a)
  IN  (IF a # NullAsset
         THEN [i \in 1..Len(scan) |->
                 Step("Unbind", n, NullPlayer, scan[i], FALSE)]
              \o <<Step("ClearLoaded", n, NullPlayer, "", FALSE)>>
         ELSE <<>>)
      \o (IF p # NullPlayer
            THEN << Step("RemoveAll", n, p, "", FALSE),
                    Step("Stop", n, p, "", FALSE),
                    Step("ClearPlayer", n, NullPlayer, "", FALSE) >>
            ELSE <<>>)

Cleanup(n) ==
  /\ Perform(CleanupSteps(n))
  /\ lastOp' = IF lastOp.op = "Cleanup" /\ lastOp.node = n
                 THEN [lastOp EXCEPT !.again = TRUE]
                 ELSE Op("Cleanup", n, "", FALSE, NullAsset)
  /\ UNCHANGED <<Sequence, entryPoints, pins, findVars>>
  /\ cleanedUp' = [cleanedUp EXCEPT ![n] = TRUE]

\* UFlowNode_PlayLevelSequence::PreloadContent: a load request for the path
\* of the soft reference, unless the reference is null.
PreloadContentSteps(n) ==
  IF Sequence[n] # NullAsset
    THEN <<Step("RequestAsyncLoad", n, NullPlayer, Sequence[n], FALSE)>>
    ELSE <<>>

PreloadContent(n) ==
  /\ Perform(PreloadContentSteps(n))
  /\ lastOp' = Op("PreloadContent", n, "", FALSE, NullAsset)
  /\ UNCHANGED <<Sequence, entryPoints, pins, cleanedUp, findVars>>

\* FlushContent that unloads the asset the node has loaded instead of the path
\* of its soft reference.
FlushContentStepsLoaded(n) ==
  IF LoadedSequence[n] # NullAsset
    THEN <<Step("Unload", n, NullPlayer, LoadedSequence[n], FALSE)>>
    ELSE <<>>

\* UFlowNode_PlayLevelSequence::FlushContent.
FlushContentSteps(n) ==
  IF Sequence[n] # NullAsset
    THEN <<Step("Unload", n, NullPlayer, Sequence[n], FALSE)>>
    ELSE <<>>

FlushContent(n) ==
  /\ Perform(FlushContentSteps(n))
  /\ lastOp' = Op("FlushContent", n, "", FALSE, NullAsset)
  /\ UNCHANGED <<Sequence, entryPoints, pins, cleanedUp, findVars>>

\* UFlowNode_PlayLevelSequence::OnTimeDilationUpdate.
OnTimeDilationUpdateSteps(n, NewTimeDilation) ==
  IF SequencePlayer[n] # NullPlayer
    THEN <<[Step("SetPlayRate", n, SequencePlayer[n], "", FALSE)
              EXCEPT !.rate = NewTimeDilation]>>
    ELSE <<>>

OnTimeDilationUpdate(n, NewTimeDilation) ==
  /\ Perform(OnTimeDilationUpdateSteps(n, NewTimeDilation))
  /\ lastOp' = Op("OnTimeDilationUpdate", n, "", FALSE, NullAsset)
  /\ UNCHANGED <<Sequence, entryPoints, pins, cleanedUp, findVars>>

\* UFlowNode_PlayLevelSequence::GetPlaybackProgress: "current / duration"
\* while the node's player is playing, the empty string otherwise.
GetPlaybackProgress(n) ==
  IF SequencePlayer[n] # NullPlayer /\ players[SequencePlayer[n]].playing
    THEN "current / duration"
    ELSE ""

\* UFlowNode_PlayLevelSequence::GetStatusString.
GetStatusString(n) == GetPlaybackProgress(n)

\* ------------------------------------------------- editor: pin discovery
RECURSIVE PinNamesOf(_)
PinNamesOf(names) ==
  IF names = <<>> THEN <<>>
  ELSE (IF ~IsEmpty(Head(names)) THEN <<ToFName(Head(names))>> ELSE <<>>)
       \o PinNamesOf(Tail(names))

RECURSIVE PinNamesOfSections(_, _)
PinNamesOfSections(secs, authored) ==
  IF secs = <<>> THEN <<>>
  ELSE PinNamesOf(authored[Head(secs)])
       \o PinNamesOfSections(Tail(secs), authored)

\* UFlowNode_PlayLevelSequence::GetContextOutputs for a node whose reference
\* is ref, over the authoring authored; resolves: LoadSynchronous succeeds.
ContextOutputs(ref, resolves, authored) ==
  IF ref = NullAsset THEN <<>>
  ELSE LET a == LoadAsset(ref, resolves)
       IN  IF a # NullAsset
             THEN PinNamesOfSections(ScanFlowSections(a), authored)
             ELSE <<>>

GetContextOutputs(n, resolves) ==
  /\ pins' = ContextOutputs(Sequence[n], resolves, entryPoints)
  /\ lastOp' = Op("GetContextOutputs", n, "", FALSE,
                  LoadAsset(Sequence[n], resolves))
  /\ steps' = <<>>
  /\ UNCHANGED <<Sequence, LoadedSequence, SequencePlayer, players, bound,
                 entryPoints, fault, cleanedUp, findVars>>

\* --------------------------------------------- editor: SFindInFlow panel
\* Strings of the panel are sequences of characters.
\* FString comparison ignoring case (ESearchCase::IgnoreCase) compares the
\* lower-case forms of the characters.
ToLower(c) ==
  CASE c = "A" -> "a"
    [] c = "B" -> "b"
    [] OTHER   -> c

\* FString::Contains(SubStr), whose search case defaults to IgnoreCase.
Contains(str, SubStr) ==
  \E k \in 0..(Len(str) - Len(SubStr)) :
    \A i \in 1..Len(SubStr) : ToLower(str[k + i]) = ToLower(SubStr[i])

\* FString::ParseIntoArray(Tokens, " ", true): the pieces between the
\* delimiters, empty pieces culled; Token is the piece being read.
RECURSIVE ParseIntoArray(_, _)
ParseIntoArray(str, Token) ==
  IF str = <<>> THEN (IF Token = <<>> THEN <<>> ELSE <<Token>>)
  ELSE IF Head(str) = " "
         THEN (IF Token = <<>> THEN <<>> ELSE <<Token>>)
              \o ParseIntoArray(Tail(str), <<>>)
         ELSE ParseIntoArray(Tail(str), Append(Token, Head(str)))

\* FString::Replace(" ", ""): every space removed.
RECURSIVE Replace(_)
Replace(str) ==
  IF str = <<>> THEN <<>>
  ELSE (IF Head(str) = " " THEN <<>> ELSE <<Head(str)>>) \o Replace(Tail(str))

\* The graphs the editor can have focused, their nodes and the sub-graph
\* assets with the graph nodes of their flow nodes.
GraphNodes(g) ==
  CASE g = "G1" -> <<"g1", "g2", "g3", "g4", "g5">>
    [] OTHER    -> <<>>

AssetGraphNodes(a) ==
  CASE a = "F1" -> <<"k1", NullNode, "k2">>
    [] OTHER    -> <<>>

\* A graph node: title, class name, comment; for a UFlowGraphNode its
\* description and, when its flow node is a sub-graph node, the asset
\* GetAssetToEdit returns.
NodeData(Node) ==
  CASE Node = "g1" ->
         [NodeName |-> <<"a", " ", "b">>, ClassName |-> <<"n">>,
          NodeComment |-> <<>>, bFlowGraphNode |-> TRUE,
          NodeDescription |-> <<>>, bSubGraphNode |-> FALSE,
          AssetToEdit |-> NullFlowAsset]
    [] Node = "g2" ->
         [NodeName |-> <<"s">>, ClassName |-> <<"n">>,
          NodeComment |-> <<>>, bFlowGraphNode |-> TRUE,
          NodeDescription |-> <<"b">>, bSubGraphNode |-> TRUE,
          AssetToEdit |-> "F1"]
    [] Node = "g3" ->
         [NodeName |-> <<"c">>, ClassName |-> <<"e">>,
          NodeComment |-> <<"A", " ", "b">>, bFlowGraphNode |-> FALSE,
          NodeDescription |-> <<>>, bSubGraphNode |-> FALSE,
          AssetToEdit |-> NullFlowAsset]
    [] Node = "g4" ->
         [NodeName |-> <<"s">>, ClassName |-> <<"n">>,
          NodeComment |-> <<>>, bFlowGraphNode |-> TRUE,
          NodeDescription |-> <<>>, bSubGraphNode |-> TRUE,
          AssetToEdit |-> NullFlowAsset]
    [] Node = "g5" ->
         [NodeName |-> <<"B">>, ClassName |-> <<"n">>,
          NodeComment |-> <<>>, bFlowGraphNode |-> TRUE,
          NodeDescription |-> <<>>, bSubGraphNode |-> FALSE,
          AssetToEdit |-> NullFlowAsset]
    [] Node = "k1" ->
         [NodeName |-> <<"a", "a">>, ClassName |-> <<"n">>,
          NodeComment |-> <<>>, bFlowGraphNode |-> TRUE,
          NodeDescription |-> <<>>, bSubGraphNode |-> FALSE,
          AssetToEdit |-> NullFlowAsset]
    [] OTHER ->
         [NodeName |-> <<"b">>, ClassName |-> <<"n">>,
          NodeComment |-> <<"a">>, bFlowGraphNode |-> TRUE,
          NodeDescription |-> <<>>, bSubGraphNode |-> FALSE,
          AssetToEdit |-> NullFlowAsset]

\* FFindInFlowResult(InValue): a result that carries no graph node.
FFindInFlowResult(InValue) ==
  [Value |-> InValue, GraphNode |-> NullNode, Children |-> <<>>]

\* FFindInFlowResult(InValue, InParent, InNode).
FFindInFlowNodeResult(InValue, InNode, Children) ==
  [Value |-> InValue, GraphNode |-> InNode, Children |-> Children]

NoResultsFound == FFindInFlowResult("No Results found")

\* SFindInFlow::StringMatchesSearchTokens with "any" in place of "all".
StringMatchesAnySearchToken(Tokens, ComparisonString) ==
  \E i \in DOMAIN Tokens : Contains(ComparisonString, Tokens[i])

\* SFindInFlow::StringMatchesSearchTokens.
StringMatchesSearchTokens(Tokens, ComparisonString) ==
  \A i \in DOMAIN Tokens : Contains(ComparisonString, Tokens[i])

\* The search string MatchTokens builds for a node of the focused graph.
NodeSearchString(Node) ==
  LET d == NodeData(Node)
  IN  Replace(d.NodeName \o d.ClassName \o d.NodeComment
              \o (IF d.bFlowGraphNode THEN d.NodeDescription ELSE <<>>))

\* The search string MatchTokensInChild builds for a child.
ChildSearchString(Child) ==
  LET d == NodeData(Child)
  IN  Replace(d.NodeName \o d.ClassName \o d.NodeComment
              \o (IF d.bFlowGraphNode THEN d.NodeDescription ELSE <<>>))

\* SFindInFlow::MatchTokensInChild: Children of the parent result afterwards.
MatchTokensInChild(Tokens, Child, Children) ==
  IF Child = NullNode THEN Children
  ELSE IF StringMatchesSearchTokens(Tokens, ChildSearchString(Child))
         THEN Append(Children,
                     FFindInFlowNodeResult(NodeData(Child).NodeName, Child, <<>>))
         ELSE Children

\* The loop of MatchTokens over the nodes of the sub-graph asset.
RECURSIVE MatchTokensInChildren(_, _, _)
MatchTokensInChildren(Tokens, ChildGraphNodes, Children) ==
  IF ChildGraphNodes = <<>> THEN Children
  ELSE MatchTokensInChildren(
         Tokens, Tail(ChildGraphNodes),
         MatchTokensInChild(Tokens, Head(ChildGraphNodes), Children))

\* The body of the loop of MatchTokens for one node: ItemsFound afterwards.
MatchTokensInNode(Tokens, Node, bSubGraph, Items) ==
  LET d == NodeData(Node)
      Children ==
        IF /\ d.bFlowGraphNode /\ bSubGraph /\ d.bSubGraphNode
           /\ d.AssetToEdit # NullFlowAsset
          THEN MatchTokensInChildren(Tokens, AssetGraphNodes(d.AssetToEdit), <<>>)
          ELSE <<>>
      bNodeMatchesSearch == StringMatchesSearchTokens(Tokens, NodeSearchString(Node))
  IN  IF Len(Children) > 0 \/ bNodeMatchesSearch
        THEN Append(Items, FFindInFlowNodeResult(d.NodeName, Node, Children))
        ELSE Items

\* SFindInFlow::MatchTokens over the nodes of Graph: ItemsFound afterwards.
RECURSIVE MatchTokens(_, _, _, _)
MatchTokens(Tokens, GraphNodeList, bSubGraph, Items) ==
  IF GraphNodeList = <<>> THEN Items
  ELSE MatchTokens(Tokens, Tail(GraphNodeList), bSubGraph,
                   MatchTokensInNode(Tokens, Head(GraphNodeList), bSubGraph, Items))

\* SFindInFlow::InitiateSearch that does not empty ItemsFound first.
InitiateSearchKeepItems(Items, Value, bSubGraph, Graph) ==
  LET Tokens == ParseIntoArray(Value, <<>>)
      Found == IF Len(Tokens) > 0 /\ Graph # NullGraph
                 THEN MatchTokens(Tokens, GraphNodes(Graph), bSubGraph, Items)
                 ELSE Items
  IN  IF Len(Found) = 0 THEN <<NoResultsFound>> ELSE Found

\* SFindInFlow::InitiateSearch: ItemsFound afterwards.  MatchTokens returns
\* at once when no graph is focused.
InitiateSearch(Items, Value, bSubGraph, Graph) ==
  LET Tokens == ParseIntoArray(Value, <<>>)
      Found == IF Len(Tokens) > 0 /\ Graph # NullGraph
                 THEN MatchTokens(Tokens, GraphNodes(Graph), bSubGraph, <<>>)
                 ELSE <<>>
  IN  IF Len(Found) = 0 THEN <<NoResultsFound>> ELSE Found

\* The assignments of a search run with the editor focused on Graph.
Search(Value, bSubGraph, Graph) ==
  \E Tokens \in {ParseIntoArray(Value, <<>>)} :
    /\ ItemsFound' = InitiateSearch(ItemsFound, Value, bSubGraph, Graph)
    /\ HighlightText' = IF Len(Tokens) > 0 THEN Value ELSE HighlightText
    /\ RootSearchResult' =
         IF Len(Tokens) > 0
           THEN (IF Graph # NullGraph THEN "FlowEditorRoot" ELSE NullResult)
           ELSE RootSearchResult
    /\ FocusedGraph' = Graph

\* SFindInFlow::OnSearchTextChanged.
OnSearchTextChanged(Text, Graph) ==
  /\ SearchValue' = Text
  /\ Search(Text, bFindInSubGraph, Graph)
  /\ lastOp' = Op("OnSearchTextChanged", NonNode, "", FALSE, NullAsset)
  /\ UNCHANGED <<bFindInSubGraph, nodeVars>>

\* SFindInFlow::OnSearchTextCommitted.
OnSearchTextCommitted(Text, Graph) ==
  /\ SearchValue' = Text
  /\ Search(Text, bFindInSubGraph, Graph)
  /\ lastOp' = Op("OnSearchTextCommitted", NonNode, "", FALSE, NullAsset)
  /\ UNCHANGED <<bFindInSubGraph, nodeVars>>

\* SFindInFlow::OnFindInSubGraphStateChanged.
OnFindInSubGraphStateChanged(CheckBoxState, Graph) ==
  /\ bFindInSubGraph' = (CheckBoxState = "Checked")
  /\ Search(SearchValue, CheckBoxState = "Checked", Graph)
  /\ lastOp' = Op("OnFindInSubGraphStateChanged", NonNode, "", FALSE, NullAsset)
  /\ UNCHANGED <<SearchValue, nodeVars>>

\* ------------------------------------------------------- specifications
Next ==
  \/ \E n \in Nodes, world \in BOOLEAN, resolves \in BOOLEAN :
       ExecuteInput(n, world, resolves)
  \/ \E n \in Nodes, world \in BOOLEAN, resolves \in BOOLEAN :
       CreatePlayer(n, world, resolves)
  \/ \E p \in 1..MaxPlayers, s \in FlowSections, i \in 1..MaxEntries,
        r \in Receivers : SequenceEvent(p, s, i, r)
  \/ \E p \in 1..MaxPlayers : PlaybackFinished(p)
  \/ \E n \in Nodes : Cleanup(n)

Spec == Init /\ [][Next]_vars

\* The node with its content and time-dilation handlers as well: one node
\* references an asset, the other has a null reference.
LatentInit ==
  /\ Init
  /\ Sequence["n2"] = NullAsset

LatentNext ==
  \/ Next
  \/ \E n \in Nodes : PreloadContent(n)
  \/ \E n \in Nodes : FlushContent(n)
  \/ \E n \in Nodes, d \in TimeDilations : OnTimeDilationUpdate(n, d)

LatentSpec == LatentInit /\ [][LatentNext]_vars

\* Editor-time enumeration over every authoring within the bounds.
SeqsUpTo(S, k) == UNION {[1..m -> S] : m \in 0..k}

EditorInit ==
  /\ Sequence \in RuntimeSequences
  /\ LoadedSequence = [n \in Nodes |-> NullAsset]
  /\ SequencePlayer = [n \in Nodes |-> NullPlayer]
  /\ players = <<>>
  /\ bound = [s \in FlowSections |-> FALSE]
  /\ entryPoints \in [FlowSections -> SeqsUpTo(EditorNames, MaxEntries)]
  /\ fault = FALSE
  /\ lastOp = [op |-> "Init", node |-> NonNode, name |-> "", world |-> FALSE,
               asset |-> NullAsset, prePlayer |-> NullPlayer,
               preLoaded |-> NullAsset, again |-> FALSE]
  /\ steps = <<>>
  /\ pins = <<>>
  /\ cleanedUp = [n \in Nodes |-> FALSE]
  /\ FindInit
  /\ ~bFindInSubGraph

EditorNext == \E n \in Nodes, resolves \in BOOLEAN : GetContextOutputs(n, resolves)

EditorSpec == EditorInit /\ [][EditorNext]_vars

\* The search panel over every query within the bounds.
SearchInit ==
  /\ Sequence = [n \in Nodes |-> IF n = "n1" THEN "A1" ELSE NullAsset]
  /\ LoadedSequence = [n \in Nodes |-> NullAsset]
  /\ SequencePlayer = [n \in Nodes |-> NullPlayer]
  /\ players = <<>>
  /\ bound = [s \in FlowSections |-> FALSE]
  /\ entryPoints = RuntimeEntryPoints
  /\ fault = FALSE
  /\ lastOp = [op |-> "Init", node |-> NonNode, name |-> "", world |-> FALSE,
               asset |-> NullAsset, prePlayer |-> NullPlayer,
               preLoaded |-> NullAsset, again |-> FALSE]
  /\ steps = <<>>
  /\ pins = <<>>
  /\ cleanedUp = [n \in Nodes |-> FALSE]
  /\ FindInit

SearchNext ==
  \/ \E Text \in SeqsUpTo(QueryChars, MaxQuery), Graph \in Graphs \cup {NullGraph} :
       OnSearchTextChanged(Text, Graph)
  \/ \E Graph \in Graphs \cup {NullGraph} :
       OnSearchTextCommitted(SearchValue, Graph)
  \/ \E CheckBoxState \in CheckBoxStates, Graph \in Graphs \cup {NullGraph} :
       OnFindInSubGraphStateChanged(CheckBoxState, Graph)

SearchSpec == SearchInit /\ [][SearchNext]_vars

\* ------------------------------------------------------------ properties
\* Every flow event section of asset a, as a set: the sections of its flow
\* tracks that are flow sections.
FlowSectionsOfAsset(a) ==
  IF a = NullAsset THEN {}
  ELSE {s \in FlowSections :
          \E i \in DOMAIN MasterTracks(a) :
             /\ MasterTracks(a)[i].isFlowTrack
             /\ s \in Range(MasterTracks(a)[i].sections)}

\* The positions in the last handler's trace of the steps of kind k with
\* argument x.
StepsAt(k, x) == {i \in DOMAIN steps : steps[i].k = k /\ steps[i].x = x}
StepsOfKind(k) == {i \in DOMAIN steps : steps[i].k = k}

\* C1: when OnSequenceEventExecuted is invoked with receiver N and event name
\* E, the output named E is triggered on N and on no other node; when the
\* receiver is not a PlayLevelSequence node no output is triggered at all.
C1_EventReachesOnlyReceiver ==
  lastOp.op = "OnSequenceEventExecuted" =>
    /\ \A i \in StepsOfKind("TriggerOutput") : steps[i].n = lastOp.node
    /\ lastOp.node \in Nodes =>
         /\ Cardinality(StepsOfKind("TriggerOutput")) = 1
         /\ \A i \in StepsOfKind("TriggerOutput") :
              steps[i].x = ToFName(lastOp.name)
    /\ lastOp.node \notin Nodes => StepsOfKind("TriggerOutput") = {}

\* C1 witness: an event was delivered to n2 while n1 and n2 each have a
\* playing player on the same asset.
C1_Witness ==
  /\ lastOp.op = "OnSequenceEventExecuted"
  /\ lastOp.node = "n2"
  /\ \E p, q \in DOMAIN players :
       /\ players[p].owner = "n1" /\ players[q].owner = "n2"
       /\ players[p].asset = players[q].asset
       /\ players[p].playing /\ players[q].playing

\* C2: in every state where a node has a player, all flow event sections of
\* its loaded asset are bound to the shared callback.
C2_PlayerImpliesSectionsBound ==
  \A n \in Nodes :
    SequencePlayer[n] # NullPlayer =>
      \A s \in FlowSectionsOfAsset(LoadedSequence[n]) : bound[s]

\* C3: when ExecuteInput runs and the asset does not resolve or no world is
\* available, no player is created, playback is not started, neither PreStart
\* nor Started is triggered, and the first output is triggered, unfinished.
C3_FailedActivationStillAdvances ==
  (lastOp.op = "ExecuteInput" /\ ~(lastOp.world /\ lastOp.asset # NullAsset)) =>
    /\ StepsOfKind("CreateLevelSequencePlayer") = {}
    /\ StepsOfKind("AddDynamic") = {}
    /\ StepsOfKind("Play") = {}
    /\ StepsOfKind("TriggerOutput") = {}
    /\ StepsOfKind("TriggerFirstOutput") = {Len(steps)}
    /\ steps[Len(steps)] = TriggerFirstOutput(lastOp.node, FALSE)

\* C3 witness: an activation with a world but an asset that did not resolve.
C3_Witness ==
  /\ lastOp.op = "ExecuteInput"
  /\ lastOp.world
  /\ lastOp.asset = NullAsset

\* C4: a successful ExecuteInput performs, in this order and once each: player
\* created, PreStart triggered, completion callback registered, playback
\* begun, Started triggered.
C4_ActivationOrder ==
  (lastOp.op = "ExecuteInput" /\ lastOp.world /\ lastOp.asset # NullAsset) =>
    \E c, a, r, y, b \in DOMAIN steps :
      /\ StepsOfKind("CreateLevelSequencePlayer") = {c}
      /\ StepsAt("TriggerOutput", "PreStart") = {a}
      /\ StepsOfKind("AddDynamic") = {r}
      /\ StepsOfKind("Play") = {y}
      /\ StepsAt("TriggerOutput", "Started") = {b}
      /\ c < a /\ a < r /\ r < y /\ y < b
      /\ steps[c].p = SequencePlayer[lastOp.node]
      /\ steps[r].p = steps[c].p /\ steps[y].p = steps[c].p
      /\ steps[r].n = lastOp.node

\* C4 witness: a successful activation has run.
C4_Witness ==
  /\ lastOp.op = "ExecuteInput"
  /\ lastOp.world
  /\ lastOp.asset # NullAsset
  /\ players[SequencePlayer[lastOp.node]].playing

C7_CompletedExactlyOnce ==
  /\ \A p \in DOMAIN players :
       players[p].completed = IF players[p].finished THEN 1 ELSE 0
  /\ lastOp.op = "OnPlaybackFinished" =>
       /\ Cardinality(StepsAt("TriggerOutput", "Completed")) = 1
       /\ \A i \in StepsAt("TriggerOutput", "Completed") :
            steps[i].n = lastOp.node

\* C7 witness: one node was activated twice and both playbacks completed.
C7_Witness ==
  \E p, q \in DOMAIN players :
    /\ p # q
    /\ players[p].owner = players[q].owner
    /\ players[p].finished /\ players[q].finished

\* C8: at most one player created by a node is playing or still has the
\* node's completion callback registered.
C8_SingleActivePlayer ==
  \A n \in Nodes :
    Cardinality({p \in DOMAIN players :
                   /\ players[p].owner = n
                   /\ (players[p].playing \/ n \in players[p].onFinished)}) <= 1

\* Occurrences of name in a pin list.
Occurrences(name, list) == Cardinality({i \in DOMAIN list : list[i] = name})

\* The non-empty event names authored in the flow event sections of asset a.
AuthoredNames(a) ==
  UNION {Range(entryPoints[s]) : s \in FlowSectionsOfAsset(a)} \ {""}

\* C9: GetContextOutputs returns an empty list for a null reference;
\* otherwise every non-empty authored event name appears in the returned list
\* exactly once, and nothing else appears.
C9_PinsExactlyOnce ==
  lastOp.op = "GetContextOutputs" =>
    /\ Sequence[lastOp.node] = NullAsset => pins = <<>>
    /\ \A e \in AuthoredNames(lastOp.asset) : Occurrences(ToFName(e), pins) = 1
    /\ \A i \in DOMAIN pins :
         /\ pins[i] # ToFName("")
         /\ \E e \in AuthoredNames(lastOp.asset) : pins[i] = ToFName(e)

\* C10: every output name the runtime event path triggers for an authored
\* event of an asset is one of the pin names GetContextOutputs enumerates for
\* that asset.
C10_RuntimeOutputsAreEnumerated ==
  (lastOp.op = "OnSequenceEventExecuted" /\ lastOp.node \in Nodes) =>
    \A i \in StepsOfKind("TriggerOutput") :
      steps[i].x \in Range(ContextOutputs(lastOp.asset, TRUE, entryPoints))

\* The steps of the last handler that trigger an output of a node.
OutputSteps(ss) ==
  {i \in DOMAIN ss : ss[i].k \in {"TriggerOutput", "TriggerFirstOutput"}}

\* C12: with a non-null asset reference PreloadContent issues one asynchronous
\* load request and FlushContent one unload request, both for the path of the
\* node's reference; with a null reference each issues no request; neither
\* changes LoadedSequence, SequencePlayer, a player or an event-section
\* binding, nor triggers an output, whatever the activation state.
C12_ContentIndependentOfActivation ==
  [][ lastOp'.op \in {"PreloadContent", "FlushContent"} =>
        /\ LoadedSequence' = LoadedSequence
        /\ SequencePlayer' = SequencePlayer
        /\ players' = players
        /\ bound' = bound
        /\ fault' = fault
        /\ OutputSteps(steps') = {}
        /\ Sequence[lastOp'.node] = NullAsset => steps' = <<>>
        /\ Sequence[lastOp'.node] # NullAsset =>
             /\ Len(steps') = 1
             /\ steps'[1].k = (IF lastOp'.op = "PreloadContent"
                                 THEN "RequestAsyncLoad" ELSE "Unload")
             /\ steps'[1].x = Sequence[lastOp'.node] ]_vars

\* C12 witness: FlushContent issued its unload request on a node that holds a
\* playing player while an event section is bound.
C12_Witness ==
  /\ lastOp.op = "FlushContent"
  /\ StepsOfKind("Unload") # {}
  /\ SequencePlayer[lastOp.node] # NullPlayer
  /\ players[SequencePlayer[lastOp.node]].playing
  /\ \E s \in FlowSections : bound[s]

\* C14: the status string of a node is non-empty only while the node has a
\* player that is playing; it is empty before any activation, after a failed
\* activation of the node, after a playback of the node has finished and
\* after Cleanup of the node.
C14_StatusOnlyWhilePlaying ==
  \A n \in Nodes :
    /\ GetStatusString(n) # "" =>
         /\ SequencePlayer[n] # NullPlayer
         /\ players[SequencePlayer[n]].playing
    /\ (\A p \in DOMAIN players : players[p].owner # n) =>
         GetStatusString(n) = ""
    /\ ( /\ lastOp.op = "ExecuteInput" /\ lastOp.node = n
         /\ ~(lastOp.world /\ lastOp.asset # NullAsset) ) =>
         GetStatusString(n) = ""
    /\ (lastOp.op = "OnPlaybackFinished" /\ lastOp.node = n) =>
         GetStatusString(n) = ""
    /\ (lastOp.op = "Cleanup" /\ lastOp.node = n) =>
         GetStatusString(n) = ""

\* C15: Cleanup of one node does not disable event routing for another: every
\* flow event section that is bound and belongs to the asset of a player
\* another node holds is still bound after the Cleanup.
C15_CleanupKeepsOthersRouted ==
  [][ lastOp'.op = "Cleanup" =>
        \A m \in Nodes \ {lastOp'.node} :
          SequencePlayer[m] # NullPlayer =>
            \A s \in FlowSectionsOfAsset(players[SequencePlayer[m]].asset) :
              bound[s] => bound'[s] ]_vars

\* C16: after Cleanup of a node and until its next activation no
\* playback-driven output is triggered on it: neither Completed by a player
\* reaching its end nor the output of a sequence event.
C16_NoOutputAfterCleanup ==
  lastOp.op \in {"OnPlaybackFinished", "OnSequenceEventExecuted"} =>
    \A i \in OutputSteps(steps) : ~cleanedUp[steps[i].n]

\* C17: in every reachable state of a node SequencePlayer is non-null only if
\* LoadedSequence is non-null, and LoadedSequence is non-null only while the
\* node holds a player.
C17_PlayerIffLoaded ==
  \A n \in Nodes :
    /\ SequencePlayer[n] # NullPlayer => LoadedSequence[n] # NullAsset
    /\ LoadedSequence[n] # NullAsset => SequencePlayer[n] # NullPlayer

\* The steps of a handler before its last one.
Front(ss) == SubSeq(ss, 1, Len(ss) - 1)

\* C18: the node stays latent until Cleanup: the delivery of a sequence event,
\* the completion callback, a time-dilation update and the first-output
\* trigger that ends ExecuteInput each leave SequencePlayer, LoadedSequence
\* and every event-section binding unchanged, and no handler other than
\* Cleanup of the node takes SequencePlayer or LoadedSequence from non-null
\* to null.
C18_LatentUntilCleanup ==
  [][ /\ lastOp'.op \in {"OnSequenceEventExecuted", "OnPlaybackFinished",
                         "OnTimeDilationUpdate"} =>
           /\ SequencePlayer' = SequencePlayer
           /\ LoadedSequence' = LoadedSequence
           /\ bound' = bound
      /\ (lastOp'.op = "ExecuteInput" /\ steps' # <<>>) =>
           /\ steps'[Len(steps')].k = "TriggerFirstOutput"
           /\ Run(Core, Front(steps')).SequencePlayer = SequencePlayer'
           /\ Run(Core, Front(steps')).LoadedSequence = LoadedSequence'
           /\ Run(Core, Front(steps')).bound = bound'
      /\ \A n \in Nodes :
           ( \/ SequencePlayer[n] # NullPlayer /\ SequencePlayer'[n] = NullPlayer
             \/ LoadedSequence[n] # NullAsset /\ LoadedSequence'[n] = NullAsset )
             => (lastOp'.op = "Cleanup" /\ lastOp'.node = n) ]_vars

\* The handlers that run a search.
SearchOps ==
  {"OnSearchTextChanged", "OnSearchTextCommitted", "OnFindInSubGraphStateChanged"}

\* The space-separated tokens of a query: its maximal non-empty pieces
\* without a space.
QueryTokens(q) ==
  {SubSeq(q, i, j) : <<i, j>> \in
     {ij \in (1..Len(q)) \X (1..Len(q)) :
        /\ ij[1] <= ij[2]
        /\ \A k \in ij[1]..ij[2] : q[k] # " "
        /\ (ij[1] = 1 \/ q[ij[1] - 1] = " ")
        /\ (ij[2] = Len(q) \/ q[ij[2] + 1] = " ")}}

LowerCase(str) == [i \in DOMAIN str |-> ToLower(str[i])]

\* sub occurs in str, letter case ignored.
HasSubstring(str, sub) ==
  \E i \in 1..(Len(str) + 1), j \in 0..Len(str) :
    /\ j >= i - 1
    /\ LowerCase(SubSeq(str, i, j)) = LowerCase(sub)

\* Title, class name, comment and description of a node concatenated, with
\* the spaces removed.
SearchStringOf(Node) ==
  SelectSeq(NodeData(Node).NodeName \o NodeData(Node).ClassName
              \o NodeData(Node).NodeComment \o NodeData(Node).NodeDescription,
            LAMBDA c : c # " ")

\* The search string of the node contains every token of the query.
MatchesQuery(Node, q) ==
  \A tok \in QueryTokens(q) : HasSubstring(SearchStringOf(Node), tok)

\* The children of a node for query q: the graph nodes of its sub-graph
\* asset that match, collected only with the Find-In-SubGraph option.
MatchingChildren(Node, q, bSubGraph) ==
  IF bSubGraph /\ NodeData(Node).bSubGraphNode
    THEN {c \in Range(AssetGraphNodes(NodeData(Node).AssetToEdit)) \ {NullNode} :
            MatchesQuery(c, q)}
    ELSE {}

\* The graph nodes the result list shows, and the children shown under one.
Listed == {ItemsFound[i].GraphNode : i \in DOMAIN ItemsFound} \ {NullNode}
ListedChildren(i) ==
  {ItemsFound[i].Children[k].GraphNode : k \in DOMAIN ItemsFound[i].Children}

\* The nodes of the focused graph that match the current query.
MatchedNodes ==
  IF FocusedGraph = NullGraph \/ QueryTokens(SearchValue) = {} THEN {}
  ELSE {Node \in Range(GraphNodes(FocusedGraph)) :
          \/ MatchesQuery(Node, SearchValue)
          \/ MatchingChildren(Node, SearchValue, bFindInSubGraph) # {}}

\* C11: after every search run ItemsFound is non-empty; it is exactly the one
\* synthetic "No Results found" entry, which carries no graph node, if and
\* only if no graph node matched (an empty or all-space query and no focused
\* graph included); and nothing of an earlier search remains: the entries
\* are the matches of this search, each once.
C11_ResultsNeverEmptyNeverStale ==
  lastOp.op \in SearchOps =>
    /\ ItemsFound # <<>>
    /\ (ItemsFound = <<NoResultsFound>>) <=> (MatchedNodes = {})
    /\ (\E i \in DOMAIN ItemsFound : ItemsFound[i].GraphNode = NullNode) =>
         ItemsFound = <<NoResultsFound>>
    /\ Listed \subseteq MatchedNodes
    /\ MatchedNodes # {} => Len(ItemsFound) = Cardinality(MatchedNodes)
    /\ \A i \in DOMAIN ItemsFound :
         ItemsFound[i].GraphNode # NullNode =>
           ListedChildren(i) \subseteq
             MatchingChildren(ItemsFound[i].GraphNode, SearchValue,
                              bFindInSubGraph)

\* C11 witness: unchecking the option ran a search for a query that matches
\* only a child of a sub-graph node, so that the list is the synthetic entry.
C11_Witness ==
  /\ lastOp.op = "OnFindInSubGraphStateChanged"
  /\ ~bFindInSubGraph
  /\ FocusedGraph # NullGraph
  /\ QueryTokens(SearchValue) # {}
  /\ ItemsFound = <<NoResultsFound>>
  /\ \E Node \in Range(GraphNodes(FocusedGraph)) :
       MatchingChildren(Node, SearchValue, TRUE) # {}

\* The listing rule of a search over the focused graph.
ListsMatchesAndChildren ==
  /\ \A Node \in Range(GraphNodes(FocusedGraph)) :
       Node \in Listed <=>
         \/ MatchesQuery(Node, SearchValue)
         \/ MatchingChildren(Node, SearchValue, bFindInSubGraph) # {}
  /\ \A i \in DOMAIN ItemsFound :
       ItemsFound[i].GraphNode # NullNode =>
         /\ ListedChildren(i) =
              MatchingChildren(ItemsFound[i].GraphNode, SearchValue,
                               bFindInSubGraph)
         /\ Len(ItemsFound[i].Children) = Cardinality(ListedChildren(i))

\* C13 as stated: a search over the focused graph lists a top-level node if
\* and only if its search string contains every token of the query or it has
\* a matching child; the children are the matching nodes of the sub-graph
\* asset, collected only while the option is checked.
C13_ListedIffMatches ==
  (lastOp.op \in SearchOps /\ FocusedGraph # NullGraph) =>
    ListsMatchesAndChildren

\* C13 amended: the same for a query that has at least one token.
C13_ListedIffMatchesSomeToken ==
  ( /\ lastOp.op \in SearchOps /\ FocusedGraph # NullGraph
    /\ QueryTokens(SearchValue) # {} ) =>
    ListsMatchesAndChildren

\* C13 witness: a two-token query listed a sub-graph node only for its
\* matching child while another node, which has one of the tokens, is not
\* listed.
C13_Witness ==
  /\ lastOp.op \in SearchOps
  /\ FocusedGraph # NullGraph
  /\ Cardinality(QueryTokens(SearchValue)) = 2
  /\ \E i \in DOMAIN ItemsFound :
       /\ ItemsFound[i].GraphNode # NullNode
       /\ ~MatchesQuery(ItemsFound[i].GraphNode, SearchValue)
       /\ Len(ItemsFound[i].Children) > 0
  /\ \E Node \in Range(GraphNodes(FocusedGraph)) \ Listed :
       \E tok \in QueryTokens(SearchValue) :
         HasSubstring(SearchStringOf(Node), tok)

====
